---- MODULE Spec2Model ----
(* A model of librtmp/rtmp.py: the RTMP session (class RTMP) with its invoke *)
(* correlation and packet pump (process_packets), and the Call Handle       *)
(* (class RTMPCall).  The transport engine (librtmp) and the AMF codec are   *)
(* the session's environment: the packets they deliver, the durations of    *)
(* their reads and their failures are chosen nondeterministically.          *)
EXTENDS Integers, Sequences, FiniteSets, TLC

(* ------------------------------------------------------------------ *)
(* Bounds of the model                                                 *)
(* ------------------------------------------------------------------ *)
MaxInvoke == 3        \* cap on the engine's invoke counter
MaxOps == 4           \* cap on the operations a caller starts on one session
TickLen == 15         \* seconds in one tick of the discrete clock
MaxDepth == 2         \* cap on the dispatches suspended inside one another
MaxCalls == 1         \* operations callbacks may start beyond MaxOps

(* ------------------------------------------------------------------ *)
(* Program constants                                                   *)
(* ------------------------------------------------------------------ *)
DefaultTimeout == 30  \* process_packets(self, transaction_id=None, timeout=30)
ConnectId == 1        \* RTMPCall(self, 1.0); transaction_id_ == 1.0

None == "None"                \* Python's None
BoundMethod == "BoundMethod"  \* the bound method object RTMPCall.result
ResultMarker == "_result"
NoTarget == 0                 \* transaction_id=None: never a key of the results

(* ------------------------------------------------------------------ *)
(* Inbound packets                                                     *)
(* ------------------------------------------------------------------ *)
\* A packet is [type, ok, body]: type is "invoke" (PACKET_TYPE_INVOKE) or
\* "other"; ok says whether decode_amf accepts the body; body is the
\* sequence of values decode_amf yields (method, id, command object, args).
ArgSeqs == {<<>>, <<"a", "b">>}
PktMethods == {ResultMarker, "onStatus"}
RegMethods == {"onStatus"}
PktIds == {ConnectId, 2}      \* the connect id and the id of a first call

\* Registered callbacks are user code.  "f" returns without touching the
\* session, "x" raises, "c" calls conn.call() and returns.  "u" calls one
\* public function of the session or of one of its handles, whichever it
\* likes, each time it runs; what that function raises leaves the callback.
Callbacks == {"f"}
RaisingCallback == "x"
CallingCallback == "c"
UsingCallback == "u"
SessionCallbacks == Callbacks \cup {RaisingCallback, CallingCallback}

\* replies with and without a value, notifications with two arguments
FullBodies ==
    {<<ResultMarker, i, None>> \o a : i \in PktIds, a \in ArgSeqs}
    \cup {<<"onStatus", i, None, "a", "b">> : i \in PktIds}
ShortBodies == {<<ResultMarker, 2>>}

OtherPacket == [type |-> "other", ok |-> TRUE, body |-> <<>>]
GarbagePacket == [type |-> "invoke", ok |-> FALSE, body |-> <<>>]
Packets ==
    {OtherPacket, GarbagePacket}
    \cup {[type |-> "invoke", ok |-> TRUE, body |-> b] : b \in FullBodies \cup ShortBodies}

\* a read lasts one or two ticks of the clock
ReadDurations == {TickLen, 2 * TickLen}
\* timeout arguments a caller passes to RTMPCall.result() and process_packets()
TimeoutArgs == {TickLen}
\* targets a caller passes to process_packets()
TargetArgs == {2, NoTarget}
\* packets a caller passes to handle_packet()
HandleArgs ==
    {OtherPacket,
     [type |-> "invoke", ok |-> TRUE, body |-> <<ResultMarker, ConnectId, None>>]}
\* values a caller assigns to RTMP.transaction_id, in tenths (19 is 1.9)
SetterArgs == {-5, 19}

NoPacket == [type |-> "none", ok |-> FALSE, body |-> <<>>]   \* None in a packet slot
\* read_packet() raised IOError instead of giving a packet
ReadError == [type |-> "error", ok |-> FALSE, body |-> <<>>]

VARIABLES
    invokeCount,       \* the engine's invoke counter (RTMP_GetInvokeCount)
    connected,         \* RTMP_IsConnected
    invoke_results,    \* self._invoke_results: transaction id -> value
    invoke_handlers,   \* self._invoke_handlers: method -> list of callbacks
    connect_result,    \* self._connect_result
    handles,           \* the RTMPCall objects created so far
    pc,                \* "idle", "loop" (inside process_packets), "done",
                       \* "callback" (a callback is about to call the session),
                       \* "resume" (that callback returned)
    cur,               \* the frame of the running result()/process_packets
    ret,               \* what the operation that just ended gave its caller
    pkt,               \* the packet the pump read in the last step, if any
    handled,           \* packets passed to RTMP_ClientPacket by the last step
    called,            \* callbacks run by the last step, with their arguments
    connReplyHandled,  \* times the session gave the handler a cached connect reply
    streamCalls,       \* create_stream() calls so far
    regs,              \* the register_remote_call() calls so far, in order
    stash,             \* results read for an id nobody has awaited since
    slotSeen,          \* the packet object in _connect_result was given to the
                       \* handler; a packet the pump puts there is a new object
    nest,              \* the dispatches suspended in a callback, outermost first
    era,               \* times the caller lowered the counter through the setter
    ops                \* operations started so far, by the caller or a callback

vars == <<invokeCount, connected, invoke_results, invoke_handlers,
          connect_result, handles, pc, cur, ret, pkt, handled, called,
          connReplyHandled, streamCalls, regs, stash, slotSeen, nest,
          era, ops>>

AllMethods == PktMethods \cup RegMethods

\* h is the handle whose result() runs the pump, 0 when the caller called
\* process_packets() itself; lastDur is the duration of the last read of this
\* pump, 0 before any read
NoCur == [h |-> 0, target |-> 0, timeout |-> 0, targ |-> 0, elapsed |-> 0,
          lastDur |-> 0, again |-> FALSE, stashed |-> FALSE,
          expect |-> None, feed |-> "none", feedVal |-> "NoFeed"]

\* No dispatch is suspended.
NoNest == <<>>
\* A suspended dispatch.  pending: the packet whose dispatch is suspended;
\* idx: the callbacks of its method entered so far; frame: the frame of the
\* pump that read it; read: a packet was read since it was suspended.
NestFrame(p, idx, frame) ==
    [pending |-> p, idx |-> idx, frame |-> frame, read |-> FALSE]

\* again: result() had been called on the handle before; cached: the return
\* came from the "if self.done" branch.  live: for call(), send_packet reported
\* success; for create_stream(), RTMP_EnableWrite was called; for a pump, it
\* ended while connected and without a result for its target (timeout).
NoRet == [op |-> "none", h |-> 0, val |-> None, raised |-> "none",
          elapsed |-> 0, lastDur |-> 0, targ |-> 0, again |-> FALSE, cached |-> FALSE,
          stashed |-> FALSE, expect |-> None, feedVal |-> "NoFeed",
          live |-> FALSE, target |-> 0]

(* ------------------------------------------------------------------ *)
(* Helpers of the session                                              *)
(* ------------------------------------------------------------------ *)
Remove_all(f, k) == <<>>
Remove(f, k) == [x \in (DOMAIN f) \ {k} |-> f[x]]
Put(f, k, v) == [x \in (DOMAIN f) \cup {k} |-> IF x = k THEN v ELSE f[x]]
Tail3(body) == SubSeq(body, 4, Len(body))     \* args = decoded[3:]

\* call(): self.transaction_id += 1; transaction_id = self.transaction_id
call_transaction_id_noinc(count) == count
call_transaction_id(count) == count + 1

\* the transaction_id setter: RTMP_SetInvokeCount(self.rtmp, int(val))
\* int() drops the fraction: it rounds towards zero
int_of(tenths) == IF tenths >= 0 THEN tenths \div 10 ELSE -((-tenths) \div 10)

\* process_packets: the fate of a packet before it is interpreted.
\* "other": not an invocation; "skip": decode_amf raised AMFError or the
\* unpacking of decoded[:3] raised ValueError; "invoke": method, id, obj, args.
classify_nolen(p) ==
    IF p.type # "invoke" THEN "other"
    ELSE IF ~p.ok THEN "skip"
    ELSE IF Len(p.body) < 2 THEN "skip" ELSE "invoke"
classify(p) ==
    IF p.type # "invoke" THEN "other"
    ELSE IF ~p.ok THEN "skip"
    ELSE IF Len(p.body) < 3 THEN "skip" ELSE "invoke"

\* if method == "_result": self._invoke_results[transaction_id_] = args[0] or None
store_result_drop(results, tid, args) == results
store_result_last(results, tid, args) ==
    Put(results, tid, IF Len(args) > 0 THEN args[Len(args)] ELSE None)
store_result(results, tid, args) ==
    Put(results, tid, IF Len(args) > 0 THEN args[1] ELSE None)

\* RTMPCall.__init__
NewHandle(by, tid) ==
    [by |-> by, tid |-> tid, done |-> FALSE, res |-> None, asked |-> FALSE,
     era |-> era]

\* for handler in self._invoke_handlers[method]: handler(*args)
\* The loop runs the callbacks of the list hs that come after the first idx.
\* D is the loop as it goes: i, the callbacks entered so far; count and hdls,
\* the engine's counter and the handles, which a callback's conn.call()
\* changes; called, the callbacks run; out, how the loop goes on: "end" (all
\* callbacks returned), "raise" (the last one entered raised), "call" (the
\* last one entered is about to call the session).
RECURSIVE run_callbacks(_, _, _)
run_callbacks(D, hs, args) ==
    IF D.i >= Len(hs) THEN [D EXCEPT !.out = "end"]
    ELSE LET f == hs[D.i + 1]
             E == [D EXCEPT !.i = @ + 1, !.called = Append(@, <<f, args>>)]
         IN CASE f = RaisingCallback -> [E EXCEPT !.out = "raise"]
              [] f = UsingCallback -> [E EXCEPT !.out = "call"]
              [] f = CallingCallback ->
                    run_callbacks(
                        [E EXCEPT !.count = call_transaction_id(@),
                                  !.hdls = Append(@,
                                      NewHandle("call", call_transaction_id(D.count)))],
                        hs, args)
              [] OTHER -> run_callbacks(E, hs, args)
dispatch(D, handlers, method, args) == run_callbacks(D, handlers[method], args)

\* self._invoke_handlers[method].append(func)
register_replace(handlers, method, func) ==
    [handlers EXCEPT ![method] = <<func>>]
register(handlers, method, func) ==
    [handlers EXCEPT ![method] = Append(@, func)]

\* if transaction_id_ == 1.0: defer the packet, else hand it to the engine
is_connect_id_never(tid) == FALSE
is_connect_id(tid) == tid = ConnectId

\* RTMPCall.result: "if self.done: return self.result" gives the bound method
cached_return(handle) == BoundMethod

\* RTMPCall.result: self.conn.process_packets(self.transaction_id) passes no
\* timeout, so the pump runs with its default
result_timeout(t) == DefaultTimeout

\* after the loop: the stored result of the target, else None
take_result(results, target) ==
    IF target \in DOMAIN results THEN results[target] ELSE None

(* ------------------------------------------------------------------ *)
(* Observers of the environment (what an instrumented engine sees)     *)
(* ------------------------------------------------------------------ *)
Malformed(p) == p.type = "invoke" /\ (~p.ok \/ Len(p.body) < 3)
DecodedInvoke(p) == p.type = "invoke" /\ p.ok /\ Len(p.body) >= 3
IsResultFor(p, t) == DecodedInvoke(p) /\ p.body[1] = ResultMarker /\ p.body[2] = t
FirstArg(p) == IF Len(p.body) >= 4 THEN p.body[4] ELSE None
IsConnectReply(p) == DecodedInvoke(p) /\ p.body[2] = ConnectId
CountReplies(s) == Cardinality({i \in 1..Len(s) : IsConnectReply(s[i])})

(* ------------------------------------------------------------------ *)
(* The session                                                         *)
(* ------------------------------------------------------------------ *)
\* RTMP.__init__: empty handler registry, no results, no connect result;
\* the engine is initialised, not connected, and has issued no invoke.
Init ==
    /\ invokeCount = 0
    /\ connected = FALSE
    /\ invoke_results = <<>>
    /\ invoke_handlers = [m \in AllMethods |-> <<>>]
    /\ connect_result = NoPacket
    /\ handles = <<>>
    /\ pc = "idle"
    /\ cur = NoCur
    /\ ret = NoRet
    /\ pkt = NoPacket
    /\ handled = <<>>
    /\ called = <<>>
    /\ connReplyHandled = 0
    /\ streamCalls = 0
    /\ regs = <<>>
    /\ stash = <<>>
    /\ slotSeen = FALSE
    /\ nest = NoNest
    /\ era = 0
    /\ ops = 0

\* A public function of the session or of a handle is entered: by the caller,
\* or by the callback that is running.
Enter ==
    /\ pc \in {"idle", "callback"}
    /\ ops < (IF pc = "idle" THEN MaxOps ELSE MaxOps + MaxCalls)
    /\ ops' = ops + 1

\* the loop over the callbacks of a packet, with the first idx entered
Dispatching(idx) ==
    [i |-> idx, count |-> invokeCount, hdls |-> handles, called |-> <<>>,
     out |-> "end"]

\* the suspended dispatches after a read of d seconds: the clocks of their
\* pumps ran, and a packet was read while they wait
tick(stack, d) ==
    [i \in 1..Len(stack) |->
        [stack[i] EXCEPT !.frame.elapsed = @ + d, !.read = TRUE]]

\* RTMP.connect: the engine sends the connect invoke (its first invoke, id 1)
\* and the session returns RTMPCall(self, 1.0); RTMPError when it fails.
Connect(ok) ==
    /\ Enter
    /\ UNCHANGED <<slotSeen, nest, era>>
    /\ IF ok
       THEN /\ invokeCount < MaxInvoke
            /\ connected' = TRUE
            /\ invokeCount' = invokeCount + 1
            /\ handles' = Append(handles, NewHandle("connect", ConnectId))
            /\ ret' = [NoRet EXCEPT !.op = "connect", !.h = Len(handles) + 1]
       ELSE /\ ret' = [NoRet EXCEPT !.op = "connect", !.raised = "RTMPError"]
            /\ UNCHANGED <<connected, invokeCount, handles>>
    /\ pc' = "done"
    /\ handled' = <<>>
    /\ pkt' = NoPacket
    /\ called' = <<>>
    /\ UNCHANGED <<invoke_results, invoke_handlers, connect_result, cur,
                   connReplyHandled, streamCalls, regs, stash>>

\* RTMP.call: bump the engine's counter, send the invocation (the outcome of
\* send_packet is not looked at) and return a handle for the new id.
Call(sent) ==
    /\ Enter
    /\ UNCHANGED <<slotSeen, nest, era>>
    /\ invokeCount < MaxInvoke
    /\ invokeCount' = call_transaction_id(invokeCount)
    /\ handles' = Append(handles, NewHandle("call", call_transaction_id(invokeCount)))
    /\ ret' = [NoRet EXCEPT !.op = "call", !.h = Len(handles) + 1, !.live = sent]
    /\ pc' = "done"
    /\ handled' = <<>>
    /\ pkt' = NoPacket
    /\ called' = <<>>
    /\ UNCHANGED <<connected, invoke_results, invoke_handlers,
                   connect_result, cur, connReplyHandled, streamCalls, regs, stash>>

\* The transaction_id setter: conn.transaction_id = val, val in tenths.
SetTransactionId(val) ==
    /\ Enter
    /\ int_of(val) <= MaxInvoke
    /\ invokeCount' = int_of(val)
    /\ era' = IF int_of(val) < invokeCount THEN era + 1 ELSE era
    /\ ret' = [NoRet EXCEPT !.op = "set_transaction_id"]
    /\ pc' = "done"
    /\ handled' = <<>>
    /\ pkt' = NoPacket
    /\ called' = <<>>
    /\ UNCHANGED <<connected, invoke_results, invoke_handlers, connect_result,
                   handles, cur, connReplyHandled, streamCalls, regs, stash,
                   slotSeen, nest>>

\* RTMP.register_remote_call
RegisterRemoteCall(m, f) ==
    /\ Enter
    /\ UNCHANGED <<slotSeen, nest, era>>
    /\ invoke_handlers' = register(invoke_handlers, m, f)
    /\ regs' = Append(regs, <<m, f>>)
    /\ ret' = [NoRet EXCEPT !.op = "register"]
    /\ pc' = "done"
    /\ handled' = <<>>
    /\ pkt' = NoPacket
    /\ called' = <<>>
    /\ UNCHANGED <<invokeCount, connected, invoke_results, connect_result,
                   handles, cur, connReplyHandled, streamCalls, stash>>

\* RTMP.create_stream: EnableWrite if writeable; a truthy _connect_result is
\* passed to handle_packet (and stays in the slot); then RTMP_ConnectStream,
\* RTMPError when it refuses.  The engine may issue an invoke of its own.
CreateStream(writeable, ok, adv) ==
    /\ Enter
    /\ slotSeen' = (slotSeen \/ connect_result # NoPacket)
    /\ UNCHANGED <<nest, era>>
    /\ invokeCount + adv <= MaxInvoke
    /\ handled' = IF connect_result # NoPacket THEN <<connect_result>> ELSE <<>>
    /\ pkt' = NoPacket
    /\ connReplyHandled' = connReplyHandled + CountReplies(handled')
    /\ invokeCount' = invokeCount + adv
    /\ streamCalls' = streamCalls + 1
    /\ ret' = [NoRet EXCEPT !.op = "create_stream", !.live = writeable,
                            !.raised = IF ok THEN "none" ELSE "RTMPError"]
    /\ pc' = "done"
    /\ called' = <<>>
    /\ UNCHANGED <<connected, invoke_results, invoke_handlers, connect_result,
                   handles, cur, regs, stash>>

\* RTMP.read_packet called by the caller: the engine gives a packet, or the
\* read fails with IOError.  The session keeps nothing of the packet.
\* drop: the engine is disconnected after the read; d: the time the read
\* takes, which the pumps waiting for the calling callback see.
ReadPacket(ok, drop, d) ==
    /\ Enter
    /\ ret' = IF ok
              THEN [NoRet EXCEPT !.op = "read_packet"]
              ELSE [NoRet EXCEPT !.op = "read_packet", !.raised = "IOError"]
    /\ pc' = "done"
    /\ handled' = <<>>
    /\ pkt' = NoPacket
    /\ called' = <<>>
    /\ connected' = (connected /\ ~drop)
    /\ nest' = IF ok THEN tick(nest, d) ELSE nest
    /\ UNCHANGED <<invokeCount, invoke_results, invoke_handlers,
                   connect_result, handles, cur, connReplyHandled, streamCalls,
                   regs, stash, slotSeen, era>>

\* RTMP.handle_packet called by the caller with a packet of its own: the
\* engine's protocol handler looks at it and may issue an invoke.
HandlePacket(p, adv) ==
    /\ Enter
    /\ invokeCount + adv <= MaxInvoke
    /\ invokeCount' = invokeCount + adv
    /\ handled' = <<p>>
    /\ ret' = [NoRet EXCEPT !.op = "handle_packet"]
    /\ pc' = "done"
    /\ pkt' = NoPacket
    /\ called' = <<>>
    /\ UNCHANGED <<connected, invoke_results, invoke_handlers, connect_result,
                   handles, cur, connReplyHandled, streamCalls, regs, stash,
                   slotSeen, nest, era>>

\* RTMP.close
Close ==
    /\ Enter
    /\ UNCHANGED <<slotSeen, nest, era>>
    /\ connected' = FALSE
    /\ ret' = [NoRet EXCEPT !.op = "close"]
    /\ pc' = "done"
    /\ handled' = <<>>
    /\ pkt' = NoPacket
    /\ called' = <<>>
    /\ UNCHANGED <<invokeCount, invoke_results, invoke_handlers,
                   connect_result, handles, cur, connReplyHandled, streamCalls,
                   regs, stash>>

\* The caller takes what the operation gave it and goes on.
Return ==
    /\ pc = "done"
    /\ nest = NoNest
    /\ UNCHANGED <<slotSeen, nest, era, ops>>
    /\ pc' = "idle"
    /\ ret' = NoRet
    /\ handled' = <<>>
    /\ pkt' = NoPacket
    /\ called' = <<>>
    /\ UNCHANGED <<invokeCount, connected, invoke_results, invoke_handlers,
                   connect_result, handles, cur, connReplyHandled, streamCalls,
                   regs, stash>>

(* ------------------------------------------------------------------ *)
(* The Call Handle and the pump                                        *)
(* ------------------------------------------------------------------ *)
\* while self.connected and transaction_id not in self._invoke_results:
\*     if (time() - start) >= timeout: break
loop_goes_on_notimeout(conn, results, target, elapsed, timeout) ==
    /\ conn
    /\ target \notin DOMAIN results
loop_goes_on(conn, results, target, elapsed, timeout) ==
    /\ conn
    /\ target \notin DOMAIN results
    /\ elapsed < timeout

\* which operation of the caller the frame belongs to
frame_op(frame) == IF frame.h = 0 THEN "process_packets" ELSE "result"

\* The frame of a pump as it returns: process_packets removes and returns the
\* stored result of the target (None without one); result() caches it in the
\* handle, marks the handle done and returns it.  hdls: the handles there are.
PumpReturns(frame, conn, results, hdls) ==
    /\ invoke_results' = Remove(results, frame.target)
    /\ handles' = IF frame.h = 0 THEN hdls
                  ELSE [hdls EXCEPT ![frame.h].res = take_result(results, frame.target),
                                    ![frame.h].done = TRUE,
                                    ![frame.h].asked = TRUE]
    /\ ret' = [NoRet EXCEPT !.op = frame_op(frame), !.h = frame.h, !.targ = frame.targ,
                            !.target = frame.target,
                            !.val = take_result(results, frame.target),
                            !.elapsed = frame.elapsed, !.lastDur = frame.lastDur,
                            !.again = frame.again, !.stashed = frame.stashed,
                            !.expect = frame.expect, !.feedVal = frame.feedVal,
                            !.live = (conn /\ frame.target \notin DOMAIN results)]
    /\ pc' = "done"
    /\ cur' = NoCur

\* An exception leaves the pump: IOError of read_packet(), or what a callback
\* raised.  It leaves result() as well, before the handle is marked done.
\* The caller gets the exception and no reading of the pump's clock.
PumpRaises(frame, exc, hdls) ==
    /\ handles' = hdls
    /\ ret' = [NoRet EXCEPT !.op = frame_op(frame), !.h = frame.h, !.targ = frame.targ,
                            !.target = frame.target,
                            !.raised = exc, !.again = frame.again,
                            !.stashed = frame.stashed, !.expect = frame.expect]
    /\ pc' = "done"
    /\ cur' = NoCur

\* RTMPCall.result(timeout=t) on handle h.  A done handle returns at once;
\* otherwise process_packets(self.transaction_id) is entered: start = time(),
\* and the loop is either entered or skipped.
ResultCall(h, t) ==
    /\ Enter
    /\ UNCHANGED <<slotSeen, nest, era>>
    /\ h \in 1..Len(handles)
    /\ IF handles[h].done
       THEN /\ pc' = "done"
            /\ ret' = [NoRet EXCEPT !.op = "result", !.h = h, !.targ = t,
                                    !.target = handles[h].tid,
                                    !.val = cached_return(handles[h]),
                                    !.again = TRUE, !.cached = TRUE]
            /\ UNCHANGED <<cur, handles, stash, invoke_results>>
       ELSE LET frame == [NoCur EXCEPT !.h = h, !.target = handles[h].tid,
                                       !.timeout = result_timeout(t), !.targ = t,
                                       !.again = handles[h].asked,
                                       !.stashed = (handles[h].tid \in DOMAIN stash),
                                       !.expect = take_result(stash, handles[h].tid)]
            IN /\ stash' = Remove(stash, handles[h].tid)
               /\ IF loop_goes_on(connected, invoke_results, frame.target, 0, frame.timeout)
                  THEN /\ pc' = "loop"
                       /\ cur' = frame
                       /\ handles' = [handles EXCEPT ![h].asked = TRUE]
                       /\ ret' = NoRet
                       /\ UNCHANGED invoke_results
                  ELSE PumpReturns(frame, connected, invoke_results, handles)
    /\ handled' = <<>>
    /\ pkt' = NoPacket
    /\ called' = <<>>
    /\ UNCHANGED <<invokeCount, connected, invoke_handlers,
                   connect_result, connReplyHandled, streamCalls, regs>>

\* RTMP.process_packets(tid, timeout=t) called by the caller itself.
ProcessPackets(tid, t) ==
    /\ Enter
    /\ LET frame == [NoCur EXCEPT !.target = tid, !.timeout = t, !.targ = t,
                                  !.stashed = (tid \in DOMAIN stash),
                                  !.expect = take_result(stash, tid)]
       IN /\ stash' = Remove(stash, tid)
          /\ IF loop_goes_on(connected, invoke_results, tid, 0, t)
             THEN /\ pc' = "loop"
                  /\ cur' = frame
                  /\ ret' = NoRet
                  /\ UNCHANGED <<invoke_results, handles>>
             ELSE PumpReturns(frame, connected, invoke_results, handles)
    /\ handled' = <<>>
    /\ pkt' = NoPacket
    /\ called' = <<>>
    /\ UNCHANGED <<invokeCount, connected, invoke_handlers, connect_result,
                   connReplyHandled, streamCalls, regs, slotSeen, nest, era>>

\* what the feed of this pump looks like after reading p
NextFeed(p) ==
    IF cur.feed = "none" /\ Malformed(p) THEN "bad"
    ELSE IF cur.feed = "bad" /\ IsResultFor(p, cur.target) THEN "badgood"
    ELSE "other"

\* One iteration of the loop: read_packet() gives p after d seconds, and the
\* packet is classified, decoded, correlated or dispatched, and forwarded;
\* then the loop condition is evaluated again and the pump goes on or returns.
\* A callback that calls conn.call() bumps the counter and creates a handle;
\* one that raises ends the pump before the packet is deferred or forwarded;
\* one that is about to call the session suspends the dispatch: the rest of
\* the callbacks and the forwarding of p wait until it returns.
\* drop: the engine is disconnected after the read; adv: the engine's
\* protocol handler issued an invoke of its own.
PumpRead(p, d, drop, adv) ==
    /\ pc = "loop"
    /\ UNCHANGED <<era, ops>>
    /\ LET c == classify(p)
           method == p.body[1]
           tid == p.body[2]
           args == Tail3(p.body)
           D == IF c = "invoke" /\ method # ResultMarker
                THEN dispatch(Dispatching(0), invoke_handlers, method, args)
                ELSE Dispatching(0)
           results == IF c = "invoke" /\ method = ResultMarker
                      THEN store_result(invoke_results, tid, args)
                      ELSE invoke_results
           conn == connected /\ ~drop
           frame == [cur EXCEPT !.elapsed = @ + d, !.lastDur = d,
                                !.feed = NextFeed(p),
                                !.feedVal = IF NextFeed(p) = "badgood"
                                            THEN FirstArg(p) ELSE "NoFeed"]
       IN /\ D.count + adv <= MaxInvoke
          /\ invokeCount' = D.count + adv
          /\ called' = D.called
          /\ connected' = conn
          /\ pkt' = p
          /\ CASE D.out = "raise" ->
                    /\ adv = 0
                    /\ handled' = <<>>
                    /\ nest' = tick(nest, d)
                    /\ UNCHANGED <<connect_result, invoke_results, slotSeen>>
                    /\ PumpRaises(frame, "Exception", D.hdls)
               [] D.out = "call" ->
                    /\ adv = 0
                    /\ Len(nest) < MaxDepth
                    /\ handled' = <<>>
                    /\ nest' = Append(tick(nest, d), NestFrame(p, D.i, frame))
                    /\ pc' = "callback"
                    /\ cur' = NoCur
                    /\ handles' = D.hdls
                    /\ UNCHANGED <<connect_result, invoke_results, ret, slotSeen>>
               [] D.out = "end" ->
                    /\ connect_result' =
                          IF c = "invoke" /\ is_connect_id(tid) THEN p ELSE connect_result
                    /\ slotSeen' = (slotSeen /\ ~(c = "invoke" /\ is_connect_id(tid)))
                    /\ handled' =
                          IF c = "other" \/ (c = "invoke" /\ ~is_connect_id(tid))
                          THEN <<p>> ELSE <<>>
                    /\ (adv = 1 => handled' # <<>>)
                    /\ nest' = tick(nest, d)
                    /\ IF loop_goes_on(conn, results, cur.target, frame.elapsed, cur.timeout)
                       THEN /\ invoke_results' = results
                            /\ cur' = frame
                            /\ handles' = D.hdls
                            /\ UNCHANGED <<pc, ret>>
                       ELSE PumpReturns(frame, conn, results, D.hdls)
    /\ connReplyHandled' = connReplyHandled + CountReplies(handled')
    /\ stash' = IF DecodedInvoke(p) /\ p.body[1] = ResultMarker /\ p.body[2] # cur.target
                THEN Put(stash, p.body[2], FirstArg(p))
                ELSE stash
    /\ UNCHANGED <<invoke_handlers, streamCalls, regs>>

PumpReadFail_swallow(drop) ==
    /\ pc = "loop"
    /\ UNCHANGED <<slotSeen, nest, era, ops>>
    /\ connected' = (connected /\ ~drop)
    /\ PumpReturns(cur, connected /\ ~drop, invoke_results, handles)
    /\ handled' = <<>>
    /\ pkt' = ReadError
    /\ called' = <<>>
    /\ UNCHANGED <<invokeCount, invoke_handlers,
                   connect_result, connReplyHandled, streamCalls, regs, stash>>

\* read_packet() raises IOError: it leaves process_packets and result(), and
\* the handle is not marked done.
PumpReadFail(drop) ==
    /\ pc = "loop"
    /\ UNCHANGED <<slotSeen, nest, era, ops>>
    /\ connected' = (connected /\ ~drop)
    /\ PumpRaises(cur, "IOError", handles)
    /\ handled' = <<>>
    /\ pkt' = ReadError
    /\ called' = <<>>
    /\ UNCHANGED <<invokeCount, invoke_results, invoke_handlers,
                   connect_result, connReplyHandled, streamCalls, regs, stash>>

Next ==
    \/ \E ok \in BOOLEAN : Connect(ok)
    \/ \E sent \in BOOLEAN : Call(sent)
    \/ \E val \in SetterArgs : SetTransactionId(val)
    \/ \E m \in RegMethods, f \in SessionCallbacks : RegisterRemoteCall(m, f)
    \/ \E w \in BOOLEAN, ok \in BOOLEAN, adv \in {0, 1} : CreateStream(w, ok, adv)
    \/ \E ok \in BOOLEAN, drop \in BOOLEAN, d \in ReadDurations :
            ReadPacket(ok, drop, d)
    \/ \E p \in HandleArgs, adv \in {0, 1} : HandlePacket(p, adv)
    \/ Close
    \/ \E h \in DOMAIN handles, t \in TimeoutArgs : ResultCall(h, t)
    \/ \E tid \in TargetArgs, t \in TimeoutArgs : ProcessPackets(tid, t)
    \/ \E p \in Packets, d \in ReadDurations, drop \in BOOLEAN, adv \in {0, 1} :
            PumpRead(p, d, drop, adv)
    \/ \E drop \in BOOLEAN : PumpReadFail(drop)
    \/ Return

Spec == Init /\ [][Next]_vars

\* A pump that is inside its loop takes its next step: read_packet() blocks
\* in the engine and then returns a packet or raises.
PumpStep ==
    \/ \E p \in Packets, d \in ReadDurations, drop \in BOOLEAN, adv \in {0, 1} :
            PumpRead(p, d, drop, adv)
    \/ \E drop \in BOOLEAN : PumpReadFail(drop)
SpecLive == Spec /\ WF_vars(PumpStep)

(* ------------------------------------------------------------------ *)
(* Callbacks that call the session                                     *)
(* ------------------------------------------------------------------ *)
\* A registered callback is user code holding the session and its handles.
\* UsingCallback calls one public function each time it runs: connect(),
\* call(), the transaction_id setter, register_remote_call(), create_stream(),
\* read_packet(), handle_packet(), close(), process_packets(), or result() of
\* a handle.  The function runs as it does for any caller, while the dispatch
\* that entered the callback waits in nest.

\* The function the callback called ended.  When it returned, the callback
\* returns too; when it raised, the exception leaves the callback, the loop
\* over the callbacks and the pump that ran it.
CallbackReturn ==
    /\ pc = "done"
    /\ nest # NoNest
    /\ LET top == nest[Len(nest)]
           below == SubSeq(nest, 1, Len(nest) - 1)
       IN IF ret.raised = "none"
          THEN /\ pc' = "resume"
               /\ ret' = NoRet
               /\ UNCHANGED <<nest, cur, handles>>
          ELSE /\ nest' = below
               /\ PumpRaises(top.frame, ret.raised, handles)
    /\ handled' = <<>>
    /\ pkt' = NoPacket
    /\ called' = <<>>
    /\ UNCHANGED <<invokeCount, connected, invoke_results, invoke_handlers,
                   connect_result, connReplyHandled, streamCalls, regs, stash,
                   slotSeen, era, ops>>

\* The callback returned: the loop over the callbacks of the suspended
\* dispatch goes on, over the list as it is now.  It may reach a callback that
\* calls the session, or one that raises; when it ends, the packet is
\* deferred or forwarded and the condition of the loop of the pump is
\* evaluated; a pump that returns takes the result of its target with it,
\* whichever pump read it.
Resume(adv) ==
    /\ pc = "resume"
    /\ LET top == nest[Len(nest)]
           below == SubSeq(nest, 1, Len(nest) - 1)
           p == top.pending
           tid == p.body[2]
           frame == top.frame
           D == dispatch(Dispatching(top.idx), invoke_handlers, p.body[1],
                         Tail3(p.body))
       IN /\ D.count + adv <= MaxInvoke
          /\ invokeCount' = D.count + adv
          /\ called' = D.called
          /\ CASE D.out = "raise" ->
                    /\ adv = 0
                    /\ handled' = <<>>
                    /\ nest' = below
                    /\ UNCHANGED <<connect_result, invoke_results, slotSeen, stash>>
                    /\ PumpRaises(frame, "Exception", D.hdls)
               [] D.out = "call" ->
                    /\ adv = 0
                    /\ handled' = <<>>
                    /\ nest' = Append(below, [top EXCEPT !.idx = D.i])
                    /\ pc' = "callback"
                    /\ handles' = D.hdls
                    /\ UNCHANGED <<connect_result, invoke_results, cur, ret, slotSeen,
                                   stash>>
               [] D.out = "end" ->
                    /\ connect_result' = IF is_connect_id(tid) THEN p ELSE connect_result
                    /\ slotSeen' = (slotSeen /\ ~is_connect_id(tid))
                    /\ handled' = IF ~is_connect_id(tid) THEN <<p>> ELSE <<>>
                    /\ (adv = 1 => handled' # <<>>)
                    /\ nest' = below
                    /\ IF loop_goes_on(connected, invoke_results, frame.target,
                                       frame.elapsed, frame.timeout)
                       THEN /\ pc' = "loop"
                            /\ cur' = frame
                            /\ handles' = D.hdls
                            /\ UNCHANGED <<invoke_results, ret, stash>>
                       ELSE /\ PumpReturns(frame, connected, invoke_results, D.hdls)
                            /\ stash' = Remove(stash, frame.target)
    /\ connReplyHandled' = connReplyHandled + CountReplies(handled')
    /\ pkt' = NoPacket
    /\ UNCHANGED <<connected, invoke_handlers, streamCalls, regs, era, ops>>

\* The session with callbacks that call it.
NextReentrant ==
    \/ Next
    \/ \E m \in RegMethods : RegisterRemoteCall(m, UsingCallback)
    \/ CallbackReturn
    \/ \E adv \in {0, 1} : Resume(adv)

SpecReentrant == Init /\ [][NextReentrant]_vars

(* ------------------------------------------------------------------ *)
(* Claims                                                              *)
(* ------------------------------------------------------------------ *)
CallHandles == {i \in 1..Len(handles) : handles[i].by = "call"}
ResultEnded == pc = "done" /\ ret.op = "result"
PumpOps == {"result", "process_packets"}

\* C1: the transaction ids of the handles returned by call() on one session
\* are strictly increasing in the order of the calls, whatever the engine
\* added to its counter in between.
C1_CallIdsAlwaysIncrease ==
    \A i, j \in CallHandles : i < j => handles[i].tid < handles[j].tid
\* C1 (amended): the transaction ids of the handles returned by call() on one
\* session are strictly increasing in the order of the calls, whatever the
\* engine added to its counter in between, as long as the caller has not
\* assigned a lower value to transaction_id between the two calls.
C1_CallIdsIncrease ==
    \A i, j \in CallHandles :
        (i < j /\ handles[i].era = handles[j].era) => handles[i].tid < handles[j].tid
\* two call() handles with an invoke of the engine between them
C1_Witness ==
    \E i, j \in CallHandles :
        /\ i < j /\ handles[i].era = handles[j].era
        /\ handles[j].tid > handles[i].tid + 1

\* C2: no handle returned by call() has the id 1.0 of the connect handshake.
C2_CallIdNeverConnectId ==
    \A i \in CallHandles : handles[i].tid # ConnectId

\* C3: a result() on a handle that already returned gives the value the first
\* result() gave (the one cached in the handle).
C3_SecondResultSame ==
    (ResultEnded /\ ret.cached) => ret.val = handles[ret.h].res

\* C4: the pump is entered at most once on behalf of a handle: a result() on
\* a handle that was asked before reads no packet and stays out of the pump.
C4_OnePumpPerHandle ==
    /\ ~(pc = "loop" /\ cur.again)
    /\ (ResultEnded /\ ret.again) => ret.cached

\* C5: when a _result for id T was read while another target was pumped and T
\* has not been awaited since, result() on T's unresolved handle returns the
\* stored value and reads no packet.
C5_StashedResultReturned ==
    /\ ~(pc = "loop" /\ cur.stashed)
    /\ (ResultEnded /\ ret.stashed) =>
           ret.raised = "none" /\ ret.val = ret.expect /\ ret.lastDur = 0
C5_Witness ==
    ResultEnded /\ ret.stashed /\ ret.val = "a" /\ handles[ret.h].by = "call"

\* C6: a result(timeout=T) that ends by timeout (still connected, no result
\* for its id) ends after at least T and before T plus the last read.
C6_TimeoutIsArgument ==
    (ResultEnded /\ ~ret.cached /\ ret.raised = "none" /\ ret.live) =>
        ret.targ <= ret.elapsed /\ ret.elapsed < ret.targ + ret.lastDur

\* C7: as long as create_stream() has not been called, no decoded invocation
\* packet with id 1.0 that the pump read has been passed to the engine's
\* protocol handler; the pump never passes one.
C7_ConnectReplyDeferred ==
    /\ streamCalls = 0 => connReplyHandled = 0
    /\ (pc = "loop" \/ (pc = "done" /\ ret.op \in PumpOps)) => CountReplies(handled) = 0
\* connect() succeeded, the pump read the reply, no stream was created yet
C7_Witness ==
    /\ \E i \in 1..Len(handles) : handles[i].by = "connect" /\ handles[i].done
    /\ connect_result # NoPacket
    /\ streamCalls = 0

\* C8: over all create_stream() calls the cached connect reply is passed to
\* the protocol handler once, never again by a later create_stream().
C8_ForwardedOnce ==
    connReplyHandled <= 1

\* C9: reading an invocation packet that does not decode to three values
\* changes neither Pending Results nor the registry nor the deferred slot,
\* runs no handler, forwards nothing, raises nothing, and the pump goes on
\* unless it timed out or was disconnected; after the feed [malformed, valid
\* result for the target] result() returns the valid value.
C9_MalformedStep ==
    (pc = "loop" /\ Malformed(pkt')) =>
        /\ invoke_results' = invoke_results
        /\ invoke_handlers' = invoke_handlers
        /\ connect_result' = connect_result
        /\ called' = <<>>
        /\ handled' = <<>>
        /\ ret'.raised = "none"
        /\ pc' # "loop" => (~connected' \/ ret'.elapsed >= cur.timeout)
C9_FeedResult ==
    (ResultEnded /\ ret.feedVal # "NoFeed") =>
        ret.raised = "none" /\ ret.val = ret.feedVal
C9_MalformedDiscarded ==
    [][C9_MalformedStep]_vars /\ []C9_FeedResult
C9_Witness ==
    ResultEnded /\ ret.feedVal = "a" /\ ret.val = "a"

\* C10: a decoded invocation whose method is not _result runs every callback
\* registered for its method, once per registration, in registration order,
\* each with the packet's additional arguments; nothing runs for a method
\* without registration or for a _result.
Registered(m) == SelectSeq(regs, LAMBDA r : r[1] = m)
ExpectedCalls(p) ==
    [i \in 1..Len(Registered(p.body[1])) |->
        <<Registered(p.body[1])[i][2], Tail3(p.body)>>]
C10_AllStep ==
    /\ (DecodedInvoke(pkt') /\ pkt'.body[1] # ResultMarker) =>
            called' = ExpectedCalls(pkt') /\ ret'.raised = "none"
    /\ ~(DecodedInvoke(pkt') /\ pkt'.body[1] # ResultMarker) => called' = <<>>
C10_DispatchFanOut ==
    [][C10_AllStep]_vars
\* C10 (amended): a decoded invocation whose method is not _result runs the
\* callbacks registered for its method in registration order, once per
\* registration, each with the packet's additional arguments, up to and
\* including the first callback that raises; that exception leaves the pump
\* and the callbacks registered after it do not run.  When none raises all of
\* them run and nothing is raised; nothing runs for a method without
\* registration or for a _result.
Raisers(p) ==
    {i \in 1..Len(ExpectedCalls(p)) : ExpectedCalls(p)[i][1] = RaisingCallback}
LastRun(p) ==
    IF Raisers(p) = {} THEN Len(ExpectedCalls(p))
    ELSE CHOOSE i \in Raisers(p) : \A j \in Raisers(p) : i <= j
C10_UntilRaiseStep ==
    /\ (DecodedInvoke(pkt') /\ pkt'.body[1] # ResultMarker) =>
            /\ called' = SubSeq(ExpectedCalls(pkt'), 1, LastRun(pkt'))
            /\ ret'.raised = IF Raisers(pkt') = {} THEN "none" ELSE "Exception"
    /\ ~(DecodedInvoke(pkt') /\ pkt'.body[1] # ResultMarker) => called' = <<>>
C10_DispatchUntilRaise ==
    [][C10_UntilRaiseStep]_vars
\* two registrations, the first raises: it ran with the packet's arguments,
\* the second did not, and the exception left result()
C10_Witness ==
    /\ Len(Registered("onStatus")) = 2
    /\ called = <<<<RaisingCallback, <<"a", "b">>>>>>
    /\ ResultEnded /\ ret.raised = "Exception"

\* C11: a decoded _result for id T stores the packet's first additional
\* argument under T (None without one), whatever was stored there; when T is
\* the target of the running pump, that pump returns this value and takes it
\* out of the store.
C11_ResultStep ==
    (pc = "loop" /\ DecodedInvoke(pkt') /\ pkt'.body[1] = ResultMarker) =>
        IF pkt'.body[2] = cur.target
        THEN /\ pc' = "done"
             /\ ret'.raised = "none"
             /\ ret'.val = FirstArg(pkt')
             /\ cur.h # 0 => handles'[cur.h].res = FirstArg(pkt')
             /\ pkt'.body[2] \notin DOMAIN invoke_results'
        ELSE /\ pkt'.body[2] \in DOMAIN invoke_results'
             /\ invoke_results'[pkt'.body[2]] = FirstArg(pkt')
C11_ResultStored ==
    [][C11_ResultStep]_vars
\* result() gave "a" after the pump read ["_result", id, None, "a", "b"]
C11_Witness ==
    /\ ResultEnded /\ ~ret.stashed /\ ret.val = "a"
    /\ IsResultFor(pkt, handles[ret.h].tid) /\ Len(pkt.body) = 5

\* C12: a call() whose send the engine reported as failed raises the
\* protocol-layer error and returns no handle.
C12_SendFailureRaised ==
    (pc = "done" /\ ret.op = "call" /\ ~ret.live) =>
        ret.raised = "RTMPError" /\ ret.h = 0

\* C13: a create_stream() that raises because the engine refused to open the
\* stream has passed nothing to the protocol handler and has not switched the
\* engine to publish mode.
C13_FailedStreamNoEffect ==
    (pc = "done" /\ ret.op = "create_stream" /\ ret.raised = "RTMPError") =>
        handled = <<>> /\ ~ret.live

\* C14: an entry of Pending Results leaves the store only in a pump whose
\* target is its id, which returns its value; it changes only when a _result
\* for its id is read; a pump that found no _result for its target, stored or
\* read, returns None whatever else is stored.
C14_StoreStep ==
    /\ \A u \in DOMAIN invoke_results :
          IF u \in DOMAIN invoke_results'
          THEN invoke_results'[u] # invoke_results[u] => IsResultFor(pkt', u)
          ELSE /\ pc' = "done" /\ ret'.op \in PumpOps
               /\ ret'.target = u
               /\ ret'.val = invoke_results[u]
    /\ \A u \in DOMAIN invoke_results' :
          u \notin DOMAIN invoke_results => IsResultFor(pkt', u)
    /\ (pc' = "done" /\ ret'.op \in PumpOps /\ ~ret'.cached /\ ret'.raised = "none"
            /\ ret'.target \notin DOMAIN invoke_results
            /\ ~IsResultFor(pkt', ret'.target)) => ret'.val = None
C14_OnlyTargetRemoved ==
    [][C14_StoreStep]_vars
\* a result for id 2, which no handle awaits, is still stored after a pump
\* for another target returned without a match
C14_Witness ==
    /\ ResultEnded /\ ~ret.cached /\ ret.val = None /\ ret.elapsed > 0
    /\ handles[ret.h].tid # 2
    /\ 2 \in DOMAIN invoke_results /\ invoke_results[2] = "a"

\* C15: when read_packet() fails inside the pump, the pump and result() end
\* with IOError, and Pending Results, the deferred slot, the registry and the
\* handle are as they were; nothing is forwarded and no callback runs.
C15_ReadFailStep ==
    pkt' = ReadError =>
        /\ pc' = "done" /\ ret'.op \in PumpOps /\ ret'.raised = "IOError"
        /\ invoke_results' = invoke_results
        /\ connect_result' = connect_result
        /\ invoke_handlers' = invoke_handlers
        /\ handles' = handles
        /\ handled' = <<>>
        /\ called' = <<>>
C15_ReadFailurePropagates ==
    [][C15_ReadFailStep]_vars
\* the read failed with a result stored and a connect reply cached
C15_Witness ==
    /\ ResultEnded /\ ret.raised = "IOError" /\ pkt = ReadError
    /\ invoke_results # <<>> /\ connect_result # NoPacket

\* C16: whatever the registered callbacks do with the session, no packet is
\* read while the dispatch of an earlier packet (its remaining callbacks and
\* its forwarding) is still to be completed.
C16_DispatchBeforeNextRead ==
    \A i \in 1..Len(nest) : ~nest[i].read

\* C17: every packet the pump reads meets one fate in the step that reads it:
\* a non-invocation and a decoded invocation with an id other than 1.0 are
\* passed to the protocol handler once, a decoded invocation with id 1.0 is
\* put in the deferred slot and not passed on, an undecodable one is dropped;
\* and no decodable packet is lost to the handler: a packet in the deferred
\* slot is replaced only after create_stream() passed it on.
C17_FateStep ==
    pc = "loop" =>
        /\ (pkt'.type = "other" \/ (DecodedInvoke(pkt') /\ ~IsConnectReply(pkt')))
              => handled' = <<pkt'>> /\ connect_result' = connect_result
        /\ IsConnectReply(pkt') => handled' = <<>> /\ connect_result' = pkt'
        /\ Malformed(pkt') => handled' = <<>> /\ connect_result' = connect_result
C17_NoLossStep ==
    (pc = "loop" /\ connect_result # NoPacket /\ IsConnectReply(pkt')
        /\ ret'.raised = "none")
        => slotSeen
C17_EveryPacketOneFate ==
    [][C17_FateStep /\ C17_NoLossStep]_vars

\* C18: the deferred slot is set once and consumed once: a packet in the slot
\* is not replaced by a later packet, and a create_stream() that passes the
\* slot's packet to the protocol handler leaves the slot empty.
C18_SlotStep ==
    /\ (connect_result # NoPacket /\ pc = "loop") => connect_result' = connect_result
    /\ (ret'.op = "create_stream" /\ handled' # <<>>) => connect_result' = NoPacket
C18_SetOnceConsumeOnce ==
    [][C18_SlotStep]_vars

\* C19: a pump inside its loop eventually ends, given that every read
\* returns and takes time.  The pump is inside the loop (about to read) only
\* while it is connected, has no result for its target and has not reached
\* its timeout; every read moves the clock on; a pump that ends without a
\* match and without an exception of a read or a callback ends by disconnect
\* or timeout and gives None.
C19_LoopStep ==
    /\ pc' = "loop" =>
          /\ connected'
          /\ cur'.target \notin DOMAIN invoke_results'
          /\ cur'.elapsed < cur'.timeout
    /\ (pc = "loop" /\ pc' = "loop") => cur'.elapsed > cur.elapsed
    /\ (pc = "loop" /\ pc' = "done") =>
          /\ ret'.raised = "IOError" <=> pkt' = ReadError
          /\ ret'.raised = "Exception" =>
                \E k \in 1..Len(called') : called'[k][1] = RaisingCallback
          /\ (ret'.raised = "none" /\ ~IsResultFor(pkt', cur.target)) =>
                /\ ret'.val = None
                /\ ~connected' \/ ret'.elapsed >= cur.timeout
C19_PumpReturns ==
    [][C19_LoopStep]_vars /\ ((pc = "loop") ~> (pc = "done"))
\* a pump that read one undecodable packet and nothing else ended by timeout
C19_Witness ==
    /\ ResultEnded /\ ret.live /\ ret.val = None /\ ret.raised = "none"
    /\ Malformed(pkt) /\ ret.elapsed = ret.lastDur /\ ret.elapsed >= DefaultTimeout

\* C20: a decoded _result with id 1.0 is put in the deferred slot as well as
\* in Pending Results (or returned, when 1.0 is the target); hence whenever
\* the connect() handle holds a value the pump delivered, the slot is filled.
C20_Step ==
    (pc = "loop" /\ IsResultFor(pkt', ConnectId)) =>
        /\ connect_result' = pkt'
        /\ IF cur.target = ConnectId
           THEN ret'.val = FirstArg(pkt')
           ELSE invoke_results'[ConnectId] = FirstArg(pkt')
C20_Resolved ==
    \A i \in 1..Len(handles) :
        (handles[i].by = "connect" /\ handles[i].done /\ handles[i].res # None)
            => connect_result # NoPacket /\ IsConnectReply(connect_result)
C20_ConnectValueImpliesSlot ==
    [][C20_Step /\ C20_Resolved']_vars
C20_Witness ==
    /\ \E i \in 1..Len(handles) :
          handles[i].by = "connect" /\ handles[i].done /\ handles[i].res = "a"
    /\ IsResultFor(connect_result, ConnectId)
    /\ pc = "idle"

====
